---- MODULE Spec2Model ----
(***************************************************************************)
(* Model of the publishing path of the Threads SDK: PostsClient.publish,   *)
(* PostsClient.create_and_publish and PostsClient._wait_for_container      *)
(* (src/src/threads/_sync/posts.py), the media calls they use              *)
(* (create_container / get_container_status, src/src/threads/_async/       *)
(* media.py, the twin of the synchronous media client), the validators     *)
(* and raise_for_error, and beside them the sliding-window rate limiters   *)
(* RateLimiter and AsyncRateLimiter (src/src/threads/_utils/rate_limit.py).*)
(* The remote service, the callers and the wall clock are the              *)
(* environment: every answer of the service and every duration of a call   *)
(* is chosen nondeterministically.                                         *)
(***************************************************************************)
EXTENDS Integers, Sequences, FiniteSets, TLC

VARIABLES
    pc,          \* position of the caller: idle, *_inflight, sleeping, done
    op,          \* entry point that was called
    args,        \* arguments of the call in progress
    now,         \* time.time(), in ticks
    start_time,  \* start_time of _wait_for_container
    container,   \* container.id held by create_and_publish / argument of the others
    post_id,     \* data["id"] of the publish answer
    calls,       \* remote calls issued so far, in order
    answers,     \* answers received so far: answers[i] is the answer to calls[i]
    wait_outcome, \* how _wait_for_container ended, once it has
    result,      \* outcome of the entry point
    http_client, \* ThreadsClient._http_client: the httpx client, None once closed
    last_close,  \* the last close(): called directly or by __exit__, whether it
                 \* found the client open, how it ended
    cancel_requested, \* the caller has asked for the wait in progress to be cancelled
    limiter,     \* class of the rate limiter: RateLimiter or AsyncRateLimiter
    max_requests,   \* RateLimiter.max_requests
    window_seconds, \* RateLimiter.window_seconds, in ticks
    timestamps,  \* RateLimiter._timestamps, oldest first
    lock,        \* holder of RateLimiter._lock, NoThread when free
    clock,       \* time.time() as the rate limiter reads it, in ticks
    frame,       \* per caller: locals of a wait_if_needed suspended in its sleep
    approved,    \* per caller: its last can_proceed returned True and it has not recorded
                 \* since (followed as long as disciplined holds)
    disciplined, \* every record_request so far followed a True can_proceed of its caller
    log,         \* every record_request since construction or reset: time and caller
    last,        \* the rate limiter step taken last, and what it returned
    response,    \* a non-200 response handed to raise_for_error: body and status code
    raised       \* how raise_for_error ended, once it has

client_vars == <<http_client, last_close>>

posts_vars == <<pc, op, args, now, start_time, container, post_id, calls, answers,
          wait_outcome, result, client_vars, cancel_requested>>

rate_vars == <<limiter, max_requests, window_seconds, timestamps, lock, clock, frame,
              approved, disciplined, log, last>>

err_vars == <<response, raised>>

vars == <<posts_vars, rate_vars, err_vars>>

----------------------------------------------------------------------------
(* Bounds of the model *)

MaxPollInterval == 2
MaxWaitTime == 3
MaxFetchTime == 1

----------------------------------------------------------------------------
(* Values *)

NoneVal == "None"
NoText == -1
NoCode == 0
NoTime == -1

MAX_TEXT_LENGTH == 500

ContainerStatus == {"EXPIRED", "ERROR", "FINISHED", "IN_PROGRESS", "PUBLISHED"}

\* status strings the service may put in a status answer
ServedStatuses == ContainerStatus \cup {"BOGUS"}

ErrorMessages == {NoneVal, "Invalid video format"}

ContainerIds == {"c1", "c2"}
PostIds == {"p1", "p2"}

Content(text, image_url, video_url, reply_control) ==
    [text |-> text, image_url |-> image_url, video_url |-> video_url,
     reply_control |-> reply_control]

\* content specifications passed to create_and_publish; text is given by its length
Contents ==
    {Content(NoText, NoneVal, NoneVal, NoneVal),
     Content(0, "", NoneVal, NoneVal),
     Content(MAX_TEXT_LENGTH + 1, NoneVal, NoneVal, NoneVal),
     Content(MAX_TEXT_LENGTH, NoneVal, NoneVal, "EVERYONE"),
     Content(NoText, "https://h/i.jpg", NoneVal, NoneVal),
     Content(1, NoneVal, "https://h/v.mp4", NoneVal),
     Content(NoText, "https://h/i.jpg", "https://h/v.mp4", NoneVal),
     Content(NoText, NoneVal, "ftp://h/v.mp4", NoneVal),
     Content(1, NoneVal, NoneVal, "str:NOBODY"),
     Content(1, NoneVal, NoneVal, "MediaType.TEXT")}

\* the members of the enumeration ReplyControl
ReplyControlMembers == {"EVERYONE", "ACCOUNTS_YOU_FOLLOW", "MENTIONED_ONLY"}

\* objects that have an attribute .value: members of an enumeration (a plain
\* string such as "str:NOBODY" has none)
HasValueAttr(x) == x \in ReplyControlMembers \cup {"MediaType.TEXT"}

\* x.value
ValueOf(x) == IF x = "MediaType.TEXT" THEN "TEXT" ELSE x

PollIntervals == 1..MaxPollInterval
MaxWaitTimes == 0..MaxWaitTime
FetchTimes == 0..MaxFetchTime

SUPPORTED_IMAGE_FORMATS == {"jpg", "jpeg", "png", "gif", "webp"}
SUPPORTED_VIDEO_FORMATS == {"mp4", "mov"}

\* urlparse(url).scheme
UrlScheme(u) ==
    CASE u = "https://h/v.mp4" -> "https"
      [] u = "https://h/i.jpg" -> "https"
      [] u = "ftp://h/v.mp4" -> "ftp"
      [] OTHER -> ""

\* urlparse(url).netloc
UrlNetloc(u) == IF u \in {"https://h/v.mp4", "https://h/i.jpg", "ftp://h/v.mp4"} THEN "h" ELSE ""

\* parsed.path.rsplit(".", 1)[-1].lower() if "." in parsed.path else ""
UrlExtension(u) ==
    CASE u = "https://h/v.mp4" -> "mp4"
      [] u = "https://h/i.jpg" -> "jpg"
      [] u = "ftp://h/v.mp4" -> "mp4"
      [] OTHER -> ""

\* truth value of an optional string: None and "" are falsy
Truthy(s) == s # NoneVal /\ s # ""

\* children=None; a list of children is given by its length
NoChildren == -1

\* lists of children passed to create_container: None, [], and lists around
\* the two limits of validate_carousel_items
ChildrenLists == {NoChildren, 0, 1, 2, 20, 21}

\* truth value of an optional list: None and [] are falsy
TruthyList(n) == n > 0

----------------------------------------------------------------------------
(* Exceptions *)

Exc(type, text, error_message, seconds, status, status_code, error_code) ==
    [type |-> type, text |-> text, error_message |-> error_message,
     seconds |-> seconds, status |-> status,
     status_code |-> status_code, error_code |-> error_code]

NoExc == Exc(NoneVal, NoneVal, NoneVal, NoTime, NoneVal, 0, NoCode)

ValidationError(text) == Exc("ValidationError", text, NoneVal, NoTime, NoneVal, 0, NoCode)

\* reply_control.value on an object without that attribute
AttributeError == Exc("AttributeError", "object has no attribute 'value'", NoneVal, NoTime, NoneVal, 0, NoCode)

\* exception raised by the HTTP client itself (no answer received)
TransportError == Exc("TransportError", "transport failure", NoneVal, NoTime, NoneVal, 0, NoCode)

\* exception raised while decoding a 200 answer (response.json(), data["id"], model_validate)
DecodeError == Exc("DecodeError", "undecodable answer", NoneVal, NoTime, NoneVal, 0, NoCode)

ContainerError(text, error_message, seconds, status) ==
    Exc("ContainerError", text, error_message, seconds, status, 0, NoCode)

\* the body of a response as raise_for_error reads it: whether it has an
\* "error" object, and that object's "code" and "message" (NoCode, NoneVal
\* when absent)
ResponseData(has_error, code, message) ==
    [has_error |-> has_error, code |-> code, message |-> message]

\* a classification that looks at the status code alone before any error code
raise_for_error_status_first(response_data, status_code) ==
    LET error_code == IF response_data.has_error THEN response_data.code ELSE NoCode
        message == IF response_data.has_error /\ response_data.message # NoneVal
                   THEN response_data.message
                   ELSE "Unknown error"
        type ==
          IF status_code = 401 THEN "AuthenticationError"
          ELSE IF status_code = 403 THEN "AuthorizationError"
          ELSE IF status_code = 429 THEN "RateLimitError"
          ELSE IF status_code = 404 THEN "NotFoundError"
          ELSE IF error_code \in {190, 102} THEN "AuthenticationError"
          ELSE IF error_code \in {10, 200, 294} THEN "AuthorizationError"
          ELSE IF error_code \in {4, 17, 32, 613} THEN "RateLimitError"
          ELSE "ThreadsAPIError"
    IN [kind |-> "raise",
        exc |-> Exc(type, message, NoneVal, NoTime, NoneVal, status_code, error_code)]

\* raise_for_error(response_data, status_code): how it ends
raise_for_error(response_data, status_code) ==
    LET error_code == IF response_data.has_error THEN response_data.code ELSE NoCode
        message == IF response_data.has_error /\ response_data.message # NoneVal
                   THEN response_data.message
                   ELSE "Unknown error"
        type ==
          IF status_code = 401 \/ error_code \in {190, 102} THEN "AuthenticationError"
          ELSE IF status_code = 403 \/ error_code \in {10, 200, 294} THEN "AuthorizationError"
          ELSE IF status_code = 429 \/ error_code \in {4, 17, 32, 613} THEN "RateLimitError"
          ELSE IF status_code = 404 THEN "NotFoundError"
          ELSE "ThreadsAPIError"
    IN [kind |-> "raise",
        exc |-> Exc(type, message, NoneVal, NoTime, NoneVal, status_code, error_code)]

\* status codes and bodies handed to raise_for_error
StatusCodes == {400, 401, 403, 404, 429, 500}

BodyCodes == {NoCode, 190, 102, 10, 200, 294, 4, 17, 32, 613, 999}

BodyMessages == {NoneVal, "Invalid token"}

ResponseBodies ==
    {ResponseData(TRUE, c, m) : c \in BodyCodes, m \in BodyMessages}
    \cup {ResponseData(FALSE, NoCode, NoneVal)}

Response(data, status_code) == [data |-> data, status_code |-> status_code]

----------------------------------------------------------------------------
(* Validators *)

validate_text_length(text) ==
    IF text # NoText /\ text > MAX_TEXT_LENGTH
    THEN ValidationError("Text exceeds maximum length")
    ELSE NoExc

validate_media_url(url, media_type) ==
    IF url = NoneVal
    THEN IF media_type \in {"IMAGE", "VIDEO"}
         THEN ValidationError("URL is required")
         ELSE NoExc
    ELSE IF UrlScheme(url) = "" \/ UrlNetloc(url) = ""
    THEN ValidationError("Invalid URL format")
    ELSE IF UrlScheme(url) \notin {"http", "https"}
    THEN ValidationError("URL must use http or https scheme")
    ELSE IF media_type = "IMAGE" /\ UrlExtension(url) # ""
            /\ UrlExtension(url) \notin SUPPORTED_IMAGE_FORMATS
    THEN ValidationError("Unsupported image format")
    ELSE IF media_type = "VIDEO" /\ UrlExtension(url) # ""
            /\ UrlExtension(url) \notin SUPPORTED_VIDEO_FORMATS
    THEN ValidationError("Unsupported video format")
    ELSE NoExc

validate_reply_control(reply_control) ==
    IF reply_control # NoneVal
       /\ reply_control \notin ReplyControlMembers
    THEN ValidationError("Invalid reply_control value")
    ELSE NoExc

\* BasePostsClient._validate_publish_params
validate_publish_params(text, image_url, video_url) ==
    IF validate_text_length(text) # NoExc
    THEN validate_text_length(text)
    ELSE IF ~(text > 0 \/ Truthy(image_url) \/ Truthy(video_url))
    THEN ValidationError("At least one of text, image_url, or video_url is required")
    ELSE NoExc

\* the resolution with the image URL tested first
determine_media_type_image_first(text, image_url, video_url) ==
    IF Truthy(image_url) THEN "IMAGE"
    ELSE IF Truthy(video_url) THEN "VIDEO"
    ELSE "TEXT"

\* BasePostsClient._determine_media_type
determine_media_type(text, image_url, video_url) ==
    IF Truthy(video_url) THEN "VIDEO"
    ELSE IF Truthy(image_url) THEN "IMAGE"
    ELSE "TEXT"

\* BaseMediaClient._validate_and_build_params, up to the first failed validator
\* validate_carousel_items(item_ids), item_ids given by its length
validate_carousel_items(n) ==
    IF n < 2 THEN ValidationError("Carousel requires at least 2 items")
    ELSE IF n > 20 THEN ValidationError("Carousel cannot have more than 20 items")
    ELSE NoExc

validate_and_build_params(media_type, text, image_url, video_url, reply_control, children) ==
    IF validate_text_length(text) # NoExc
    THEN validate_text_length(text)
    ELSE IF Truthy(reply_control) /\ ~HasValueAttr(reply_control)
    THEN AttributeError
    ELSE IF Truthy(reply_control) /\ validate_reply_control(ValueOf(reply_control)) # NoExc
    THEN validate_reply_control(ValueOf(reply_control))
    ELSE IF media_type = "IMAGE"
    THEN validate_media_url(image_url, "IMAGE")
    ELSE IF media_type = "VIDEO"
    THEN validate_media_url(video_url, "VIDEO")
    ELSE IF media_type = "CAROUSEL" /\ TruthyList(children)
    THEN validate_carousel_items(children)
    ELSE NoExc

----------------------------------------------------------------------------
(* Remote calls and the answers of the service *)

Call(name, target, media_type) ==
    [call |-> name, target |-> target, media_type |-> media_type]

Answer(kind, status_code, error_code, id, status, error_message, media_type) ==
    [kind |-> kind, status_code |-> status_code, error_code |-> error_code,
     id |-> id, status |-> status, error_message |-> error_message,
     media_type |-> media_type]

ErrorStatusCodes == {401, 500}
ErrorCodes == {NoCode, 4}

\* answers that make a call fail: a non-200 answer, an exception of the HTTP
\* client, a 200 answer whose body cannot be decoded
ErrorAnswers ==
    {Answer("http_error", s, c, NoneVal, NoneVal, NoneVal, NoneVal) :
        s \in ErrorStatusCodes, c \in ErrorCodes}
    \cup {Answer("transport", 0, NoCode, NoneVal, NoneVal, NoneVal, NoneVal),
          Answer("malformed", 200, NoCode, NoneVal, NoneVal, NoneVal, NoneVal)}

CreateAnswers ==
    {Answer("ok", 200, NoCode, c, NoneVal, NoneVal, NoneVal) : c \in ContainerIds}
    \cup ErrorAnswers

StatusAnswers ==
    {Answer("ok", 200, NoCode, NoneVal, s, NoneVal, NoneVal) : s \in ServedStatuses}
    \cup {Answer("ok", 200, NoCode, NoneVal, "ERROR", m, NoneVal) : m \in ErrorMessages}
    \cup ErrorAnswers

PublishAnswers ==
    {Answer("ok", 200, NoCode, p, NoneVal, NoneVal, NoneVal) : p \in PostIds}
    \cup ErrorAnswers

\* answers to GET /{p}: the service describes the post it was asked for
GetPostAnswers(p) ==
    {Answer("ok", 200, NoCode, p, NoneVal, NoneVal, m) : m \in {"TEXT_POST", "VIDEO"}}
    \cup ErrorAnswers

\* the exception a call raises for an answer of ErrorAnswers
AnswerError(ans) ==
    CASE ans.kind = "transport" -> TransportError
      [] ans.kind = "http_error" ->
            raise_for_error(ResponseData(TRUE, ans.error_code, NoneVal),
                            ans.status_code).exc
      [] OTHER -> DecodeError

----------------------------------------------------------------------------
(* Results *)

Value(what, id, status, error_message, media_type, full) ==
    [what |-> what, id |-> id, status |-> status, error_message |-> error_message,
     media_type |-> media_type, full |-> full]

NoValue == Value(NoneVal, NoneVal, NoneVal, NoneVal, NoneVal, FALSE)

\* MediaContainerStatus.model_validate(data)
MediaContainerStatus(id, status, error_message) ==
    Value("MediaContainerStatus", id, status, error_message, NoneVal, TRUE)

\* Post.model_validate(data) of a post-detail answer
Post(id, media_type) == Value("Post", id, NoneVal, NoneVal, media_type, TRUE)

\* Post(id=post_id, media_type="TEXT_POST")
MinimalPost(id) == Value("Post", id, NoneVal, NoneVal, "TEXT_POST", FALSE)

Outcome(kind, exc, value) == [kind |-> kind, exc |-> exc, value |-> value]

NoResult == Outcome("none", NoExc, NoValue)
Returned(v) == Outcome("return", NoExc, v)
Raised(e) == Outcome("raise", e, NoValue)

Args(text, image_url, video_url, reply_control, wait_for_ready, poll_interval, max_wait_time, fetch_post, children) ==
    [text |-> text, image_url |-> image_url, video_url |-> video_url,
     reply_control |-> reply_control, wait_for_ready |-> wait_for_ready,
     poll_interval |-> poll_interval, max_wait_time |-> max_wait_time,
     fetch_post |-> fetch_post, children |-> children]

NoArgs == Args(NoText, NoneVal, NoneVal, NoneVal, FALSE, 1, 0, FALSE, NoChildren)

----------------------------------------------------------------------------
(* The code between two remote calls *)

\* create_container without the check of response.status_code
create_container_unchecked(ans) ==
    IF ans.kind = "transport"
    THEN Raised(AnswerError(ans))
    ELSE Returned(Value("MediaContainer", ans.id, NoneVal, NoneVal, NoneVal, TRUE))

\* MediaClient.create_container, from the answer of POST /{user_id}/threads on
create_container(ans) ==
    IF ans.kind # "ok"
    THEN Raised(AnswerError(ans))
    ELSE Returned(Value("MediaContainer", ans.id, NoneVal, NoneVal, NoneVal, TRUE))

\* MediaClient.get_container_status, from the answer of GET /{container_id} on;
\* status: ContainerStatus makes model_validate reject any other string
get_container_status(ans, container_id) ==
    IF ans.kind # "ok"
    THEN Raised(AnswerError(ans))
    ELSE IF ans.status \notin ContainerStatus
    THEN Raised(DecodeError)
    ELSE Returned(MediaContainerStatus(container_id, ans.status, ans.error_message))

\* is_ready that also accepts a published container
is_ready_or_published(status) == status.status \in {"FINISHED", "PUBLISHED"}

is_ready(status) == status.status = "FINISHED"

has_error(status) == status.status = "ERROR"

\* the deadline test with > in place of >=
deadline_reached_strict(elapsed, max_wait_time) == elapsed > max_wait_time

\* a deadline that is noticed one tick late
deadline_reached_late(elapsed, max_wait_time) == elapsed >= max_wait_time + 1

\* elapsed >= max_wait_time
deadline_reached(elapsed, max_wait_time) == elapsed >= max_wait_time

\* the processing-failed error without the snapshot's error_message
ProcessingFailed_no_message(status) ==
    ContainerError("Container processing failed", NoneVal, NoTime, NoneVal)

ProcessingFailed(status) ==
    ContainerError("Container processing failed", status.error_message, NoTime, NoneVal)

Expired == ContainerError("Container expired before publishing", NoneVal, NoTime, NoneVal)

\* f"Container not ready after {max_wait_time}s (status: {status.status})"
NotReady(max_wait_time, elapsed, status) ==
    ContainerError("Container not ready", NoneVal, max_wait_time, status.status)

\* the iteration with the deadline tested before the expiry
wait_iteration_deadline_before_expired(status, elapsed, max_wait_time) ==
    IF is_ready(status) THEN Returned(status)
    ELSE IF has_error(status) THEN Raised(ProcessingFailed(status))
    ELSE IF deadline_reached(elapsed, max_wait_time)
    THEN Raised(NotReady(max_wait_time, elapsed, status))
    ELSE IF status.status = "EXPIRED" THEN Raised(Expired)
    ELSE Outcome("sleep", NoExc, NoValue)

\* the iteration with the deadline tested before the status
wait_iteration_deadline_first(status, elapsed, max_wait_time) ==
    IF deadline_reached(elapsed, max_wait_time)
    THEN Raised(NotReady(max_wait_time, elapsed, status))
    ELSE IF is_ready(status) THEN Returned(status)
    ELSE IF has_error(status) THEN Raised(ProcessingFailed(status))
    ELSE IF status.status = "EXPIRED" THEN Raised(Expired)
    ELSE Outcome("sleep", NoExc, NoValue)

\* one iteration of the loop of _wait_for_container, after the status fetch
wait_iteration(status, elapsed, max_wait_time) ==
    IF is_ready(status) THEN Returned(status)
    ELSE IF has_error(status) THEN Raised(ProcessingFailed(status))
    ELSE IF status.status = "EXPIRED" THEN Raised(Expired)
    ELSE IF deadline_reached(elapsed, max_wait_time)
    THEN Raised(NotReady(max_wait_time, elapsed, status))
    ELSE Outcome("sleep", NoExc, NoValue)

\* create_and_publish that never waits
needs_wait_never(wait_for_ready, video_url) == FALSE

\* create_and_publish that waits whatever the content
needs_wait_ignores_video(wait_for_ready, video_url) == wait_for_ready

\* if wait_for_ready and video_url
needs_wait(wait_for_ready, video_url) == wait_for_ready /\ Truthy(video_url)

\* create_and_publish that swallows the failure of the wait and publishes
after_wait_swallow(outcome) == "publish"

\* what create_and_publish does with the outcome of _wait_for_container:
\* an exception leaves create_and_publish, a return is followed by publish
after_wait(outcome) == IF outcome.kind = "raise" THEN "raise" ELSE "publish"

\* publish without the check of response.status_code
publish_answer_unchecked(ans) ==
    IF ans.kind = "transport"
    THEN Raised(AnswerError(ans))
    ELSE Returned(MinimalPost(ans.id))

\* PostsClient.publish, from the answer of POST /{user_id}/threads_publish to post_id
publish_answer(ans) ==
    IF ans.kind # "ok"
    THEN Raised(AnswerError(ans))
    ELSE Returned(MinimalPost(ans.id))

\* PostsClient.get, from the answer of GET /{post_id} on
get(ans, id) ==
    IF ans.kind # "ok"
    THEN Raised(AnswerError(ans))
    ELSE Returned(Post(ans.id, ans.media_type))

\* publish without the try/except around the post-detail fetch
fetch_or_raise(fetched, id) == fetched

\* try: return self.get(post_id) / except Exception: return Post(id=post_id, ...)
fetch_or_minimal(fetched, id) ==
    IF fetched.kind = "raise" THEN Returned(MinimalPost(id)) ELSE fetched

----------------------------------------------------------------------------
(* Rate limiter (_utils/rate_limit.py): values and code *)

NumThreads == 2
MaxRequests == 2
MaxWindow == 2
MaxClock == 3
MaxRecords == 2

\* the concurrent callers sharing one limiter: threads of a RateLimiter,
\* tasks of one event loop for an AsyncRateLimiter
Threads == 1..NumThreads

NoThread == 0

\* the two classes of the module
Kinds == {"RateLimiter", "AsyncRateLimiter"}

\* values of max_requests at construction: a positive capacity
Capacities == 1..MaxRequests

\* values of window_seconds at construction
Windows == 1..MaxWindow

\* a cleanup that removes one expired timestamp at most
RECURSIVE cleanup_old_timestamps_once(_, _, _)
cleanup_old_timestamps_once(ts, t, window) ==
    IF Len(ts) > 0 /\ ts[1] < t - window THEN Tail(ts) ELSE ts

\* a cleanup that removes nothing
RECURSIVE cleanup_old_timestamps_never(_, _, _)
cleanup_old_timestamps_never(ts, t, window) == ts

\* a cleanup whose cutoff lies one tick further back
RECURSIVE cleanup_old_timestamps_late(_, _, _)
cleanup_old_timestamps_late(ts, t, window) ==
    IF Len(ts) > 0 /\ ts[1] < t - window - 1
    THEN cleanup_old_timestamps_late(Tail(ts), t, window)
    ELSE ts

\* RateLimiter._cleanup_old_timestamps(now): the deque after the loop
RECURSIVE cleanup_old_timestamps(_, _, _)
cleanup_old_timestamps(ts, t, window) ==
    IF Len(ts) > 0 /\ ts[1] < t - window
    THEN cleanup_old_timestamps(Tail(ts), t, window)
    ELSE ts

\* a capacity test that admits one request too many
under_capacity_inclusive(ts, capacity) == Len(ts) <= capacity

\* len(self._timestamps) < self.max_requests
under_capacity(ts, capacity) == Len(ts) < capacity

\* a record_request that overwrites the newest timestamp
record_request_overwrite(ts, t) ==
    IF Len(ts) > 0 THEN [ts EXCEPT ![Len(ts)] = t] ELSE <<t>>

\* self._timestamps.append(time.time())
record_request(ts, t) == Append(ts, t)

\* a wait measured from the newest timestamp
wait_time_from_newest(ts, t, window) == (ts[Len(ts)] + window) - t

\* wait_time = (oldest + self.window_seconds) - now
wait_time(ts, t, window) == (ts[1] + window) - t

\* max(0, self.max_requests - len(self._timestamps))
remaining(ts, capacity) ==
    IF capacity - Len(ts) > 0 THEN capacity - Len(ts) ELSE 0

\* len(self._timestamps)
usage(ts) == Len(ts)

\* a reset that keeps the newest timestamp
reset_keep_newest(ts) == IF Len(ts) > 0 THEN <<ts[Len(ts)]>> ELSE ts

\* self._timestamps.clear()
reset(ts) == <<>>

\* locals of a wait_if_needed that is inside its sleep
Frame(t, w, after, disturbed) ==
    [now |-> t, wait_time |-> w, after |-> after, disturbed |-> disturbed]

NoFrame == Frame(NoTime, 0, <<>>, FALSE)

\* a step of the rate limiter: the operation, the time it read, what it
\* returned (ok for can_proceed, ret for the numbers; for a sleep, the time it
\* asked to sleep), whether it slept, whether another caller recorded a request
\* while it slept, and the deque as its body left it
Step(name, t, ok, ret, slept, disturbed, after) ==
    [op |-> name, now |-> t, ok |-> ok, ret |-> ret, slept |-> slept,
     disturbed |-> disturbed, after |-> after]

NoStep == Step(NoneVal, NoTime, FALSE, 0, FALSE, FALSE, <<>>)

\* RateLimiter(max_requests, window_seconds) / AsyncRateLimiter(...) just constructed
RateConstructed(k, capacity, window) ==
    /\ limiter = k
    /\ max_requests = capacity
    /\ window_seconds = window
    /\ timestamps = <<>>
    /\ lock = NoThread
    /\ clock = 0
    /\ frame = [t \in Threads |-> NoFrame]
    /\ approved = [t \in Threads |-> FALSE]
    /\ disciplined = TRUE
    /\ log = <<>>
    /\ last = NoStep

----------------------------------------------------------------------------
(* The state machine *)

User == "u1"

StatusCall(c) == Call("get_container_status", c, NoneVal)
PublishCall(c) == Call("publish", c, NoneVal)

\* the httpx.Client made by ThreadsClient.__init__
HttpxClient == "httpx.Client"

RuntimeError(text) == Exc("RuntimeError", text, NoneVal, NoTime, NoneVal, 0, NoCode)

\* a transport property that hands out whatever _http_client holds
http_unchecked(client) == Returned(client)

\* ThreadsClient.http / AsyncThreadsClient.http
http(client) ==
    IF client = NoneVal
    THEN Raised(RuntimeError("Client has been closed"))
    ELSE Returned(client)

\* ThreadsClient.close / AsyncThreadsClient.aclose: the new _http_client and
\* how the call ends
close(client) ==
    IF client # NoneVal
    THEN [http_client |-> NoneVal, outcome |-> Returned(NoneVal)]
    ELSE [http_client |-> client, outcome |-> Returned(NoneVal)]

Closed(via, was_open, outcome) == [via |-> via, was_open |-> was_open, outcome |-> outcome]

NoClose == Closed(NoneVal, FALSE, NoResult)

PostsConstructed ==
    /\ pc = "idle"
    /\ op = NoneVal
    /\ args = NoArgs
    /\ now = 0
    /\ start_time = NoTime
    /\ container = NoneVal
    /\ post_id = NoneVal
    /\ calls = <<>>
    /\ answers = <<>>
    /\ wait_outcome = NoResult
    /\ result = NoResult
    /\ http_client = HttpxClient
    /\ last_close = NoClose
    /\ cancel_requested = FALSE

\* no response has been handed to raise_for_error
NoResponse ==
    /\ response = Response(ResponseData(FALSE, NoCode, NoneVal), 500)
    /\ raised = [kind |-> "none", exc |-> NoExc]

\* a client just constructed; the rate limiter beside it is left alone
Init ==
    /\ PostsConstructed
    /\ RateConstructed("RateLimiter", 1, 1)
    /\ NoResponse

\* create_and_publish up to the POST of create_container
CreateAndPublish(text, image_url, video_url, reply_control, wait_for_ready, poll_interval, max_wait_time) ==
    LET e1 == validate_publish_params(text, image_url, video_url)
        media_type == determine_media_type(text, image_url, video_url)
        e2 == validate_and_build_params(media_type, text, image_url, video_url,
                                        reply_control, NoChildren)
    IN /\ pc = "idle"
       /\ op' = "create_and_publish"
       /\ args' = Args(text, image_url, video_url, reply_control, wait_for_ready,
                       poll_interval, max_wait_time, TRUE, NoChildren)
       /\ IF e1 # NoExc
          THEN /\ result' = Raised(e1)
               /\ pc' = "done"
               /\ calls' = calls
          ELSE IF e2 # NoExc
          THEN /\ result' = Raised(e2)
               /\ pc' = "done"
               /\ calls' = calls
          ELSE IF http(http_client).kind = "raise"
          THEN /\ result' = http(http_client)
               /\ pc' = "done"
               /\ calls' = calls
          ELSE /\ result' = result
               /\ pc' = "create_inflight"
               /\ calls' = Append(calls, Call("create_container", User, media_type))
       /\ UNCHANGED <<now, start_time, container, post_id, answers, wait_outcome>>
       /\ UNCHANGED <<client_vars, cancel_requested, rate_vars, err_vars>>

\* create_container called on its own for a carousel, up to its POST
CreateContainer(children) ==
    LET e == validate_and_build_params("CAROUSEL", NoText, NoneVal, NoneVal, NoneVal,
                                       children)
    IN /\ pc = "idle"
       /\ op' = "create_container"
       /\ args' = Args(NoText, NoneVal, NoneVal, NoneVal, FALSE, 1, 0, FALSE, children)
       /\ IF e # NoExc
          THEN /\ result' = Raised(e)
               /\ pc' = "done"
               /\ calls' = calls
          ELSE IF http(http_client).kind = "raise"
          THEN /\ result' = http(http_client)
               /\ pc' = "done"
               /\ calls' = calls
          ELSE /\ result' = result
               /\ pc' = "create_inflight"
               /\ calls' = Append(calls, Call("create_container", User, "CAROUSEL"))
       /\ UNCHANGED <<now, start_time, container, post_id, answers, wait_outcome>>
       /\ UNCHANGED <<client_vars, cancel_requested, rate_vars, err_vars>>

\* the answer to create_container arrives; create_and_publish goes on to the
\* first status fetch of _wait_for_container or to publish
CreateContainerReturn(ans) ==
    LET created == create_container(ans)
    IN /\ pc = "create_inflight"
       /\ answers' = Append(answers, ans)
       /\ IF created.kind = "raise"
          THEN /\ result' = created
               /\ pc' = "done"
               /\ UNCHANGED <<container, start_time, calls>>
          ELSE IF op = "create_container"
          THEN /\ result' = created
               /\ container' = created.value.id
               /\ pc' = "done"
               /\ UNCHANGED <<start_time, calls>>
          ELSE /\ container' = created.value.id
               /\ result' = result
               /\ IF needs_wait(args.wait_for_ready, args.video_url)
                  THEN /\ start_time' = now
                       /\ calls' = Append(calls, StatusCall(created.value.id))
                       /\ pc' = "status_inflight"
                  ELSE /\ start_time' = start_time
                       /\ calls' = Append(calls, PublishCall(created.value.id))
                       /\ pc' = "publish_inflight"
       /\ UNCHANGED <<op, args, now, post_id, wait_outcome>>
       /\ UNCHANGED <<client_vars, cancel_requested, rate_vars, err_vars>>

\* _wait_for_container called on its own, up to its first status fetch
WaitForContainer(container_id, poll_interval, max_wait_time) ==
    /\ pc = "idle"
    /\ op' = "_wait_for_container"
    /\ args' = Args(NoText, NoneVal, NoneVal, NoneVal, FALSE, poll_interval,
                    max_wait_time, FALSE, NoChildren)
    /\ container' = container_id
    /\ IF http(http_client).kind = "raise"
       THEN /\ result' = http(http_client)
            /\ wait_outcome' = http(http_client)
            /\ pc' = "done"
            /\ UNCHANGED <<start_time, calls>>
       ELSE /\ start_time' = now
            /\ calls' = Append(calls, StatusCall(container_id))
            /\ pc' = "status_inflight"
            /\ UNCHANGED <<result, wait_outcome>>
    /\ UNCHANGED <<now, post_id, answers>>
    /\ UNCHANGED <<client_vars, cancel_requested, rate_vars, err_vars>>

\* a status fetch, which took d ticks, returns; the rest of the iteration runs
GetContainerStatusReturn(ans, d) ==
    LET fetched == get_container_status(ans, container)
        elapsed == (now + d) - start_time
        outcome == IF fetched.kind = "raise"
                   THEN fetched
                   ELSE wait_iteration(fetched.value, elapsed, args.max_wait_time)
    IN /\ pc = "status_inflight"
       /\ now' = now + d
       /\ answers' = Append(answers, ans)
       /\ IF outcome.kind = "sleep"
          THEN /\ pc' = "sleeping"
               /\ UNCHANGED <<wait_outcome, result, calls>>
          ELSE /\ wait_outcome' = outcome
               /\ IF op = "_wait_for_container"
                  THEN /\ result' = outcome
                       /\ pc' = "done"
                       /\ calls' = calls
                  ELSE IF after_wait(outcome) = "raise"
                  THEN /\ result' = Raised(outcome.exc)
                       /\ pc' = "done"
                       /\ calls' = calls
                  ELSE /\ result' = result
                       /\ pc' = "publish_inflight"
                       /\ calls' = Append(calls, PublishCall(container))
       /\ UNCHANGED <<op, args, start_time, container, post_id>>
       /\ UNCHANGED <<client_vars, cancel_requested, rate_vars, err_vars>>

\* time.sleep(poll_interval), then the next status fetch is issued
Sleep ==
    /\ pc = "sleeping"
    /\ now' = now + args.poll_interval
    /\ calls' = Append(calls, StatusCall(container))
    /\ pc' = "status_inflight"
    /\ UNCHANGED <<op, args, start_time, container, post_id, answers, wait_outcome,
                   result>>
    /\ UNCHANGED <<client_vars, cancel_requested, rate_vars, err_vars>>

\* publish called on its own, up to the POST of threads_publish
Publish(container_id, fetch_post) ==
    /\ pc = "idle"
    /\ op' = "publish"
    /\ args' = Args(NoText, NoneVal, NoneVal, NoneVal, FALSE, 1, 0, fetch_post, NoChildren)
    /\ container' = container_id
    /\ IF http(http_client).kind = "raise"
       THEN /\ result' = http(http_client)
            /\ pc' = "done"
            /\ calls' = calls
       ELSE /\ result' = result
            /\ calls' = Append(calls, PublishCall(container_id))
            /\ pc' = "publish_inflight"
    /\ UNCHANGED <<now, start_time, post_id, answers, wait_outcome>>
    /\ UNCHANGED <<client_vars, cancel_requested, rate_vars, err_vars>>

\* the answer to the publish call arrives
PublishReturn(ans) ==
    LET published == publish_answer(ans)
    IN /\ pc = "publish_inflight"
       /\ answers' = Append(answers, ans)
       /\ IF published.kind = "raise"
          THEN /\ result' = published
               /\ pc' = "done"
               /\ UNCHANGED <<post_id, calls>>
          ELSE /\ post_id' = published.value.id
               /\ IF ~args.fetch_post
                  THEN /\ result' = published
                       /\ pc' = "done"
                       /\ calls' = calls
                  ELSE /\ result' = result
                       /\ pc' = "get_inflight"
                       /\ calls' = Append(calls, Call("get", published.value.id, NoneVal))
       /\ UNCHANGED <<op, args, now, start_time, container, wait_outcome>>
       /\ UNCHANGED <<client_vars, cancel_requested, rate_vars, err_vars>>

\* the answer to the post-detail fetch arrives
GetReturn(ans) ==
    /\ pc = "get_inflight"
    /\ answers' = Append(answers, ans)
    /\ result' = fetch_or_minimal(get(ans, post_id), post_id)
    /\ pc' = "done"
    /\ UNCHANGED <<op, args, now, start_time, container, post_id, calls, wait_outcome>>
    /\ UNCHANGED <<client_vars, cancel_requested, rate_vars, err_vars>>

\* the caller is not inside an operation; a run holds one operation, and the
\* client is closed, if it is, before that operation starts
BetweenOperations == pc = "idle"

\* client.close() / await client.aclose()
Close ==
    /\ BetweenOperations
    /\ http_client' = close(http_client).http_client
    /\ last_close' = Closed("close", http_client # NoneVal, close(http_client).outcome)
    /\ UNCHANGED <<pc, op, args, now, start_time, container, post_id, calls, answers,
                   wait_outcome, result, cancel_requested>>
    /\ UNCHANGED <<rate_vars, err_vars>>

\* a `with client:` block is left: __exit__ / __aexit__ calls close()
Exit ==
    /\ BetweenOperations
    /\ http_client' = close(http_client).http_client
    /\ last_close' = Closed("__exit__", http_client # NoneVal, close(http_client).outcome)
    /\ UNCHANGED <<pc, op, args, now, start_time, container, post_id, calls, answers,
                   wait_outcome, result, cancel_requested>>
    /\ UNCHANGED <<rate_vars, err_vars>>

\* the caller asks for the wait in progress to be cancelled; nothing in
\* _wait_for_container reads the request
RequestCancel ==
    /\ pc \in {"status_inflight", "sleeping"}
    /\ ~cancel_requested
    /\ cancel_requested' = TRUE
    /\ UNCHANGED <<pc, op, args, now, start_time, container, post_id, calls, answers,
                   wait_outcome, result, client_vars>>
    /\ UNCHANGED <<rate_vars, err_vars>>

Next ==
    \/ \E c \in Contents, wait_for_ready \in BOOLEAN,
          poll_interval \in PollIntervals, max_wait_time \in MaxWaitTimes :
          CreateAndPublish(c.text, c.image_url, c.video_url, c.reply_control,
                           wait_for_ready, poll_interval, max_wait_time)
    \/ \E children \in ChildrenLists : CreateContainer(children)
    \/ \E ans \in CreateAnswers : CreateContainerReturn(ans)
    \/ \E c \in ContainerIds, poll_interval \in PollIntervals,
          max_wait_time \in MaxWaitTimes :
          WaitForContainer(c, poll_interval, max_wait_time)
    \/ \E ans \in StatusAnswers, d \in FetchTimes : GetContainerStatusReturn(ans, d)
    \/ Sleep
    \/ \E c \in ContainerIds, fetch_post \in BOOLEAN : Publish(c, fetch_post)
    \/ \E ans \in PublishAnswers : PublishReturn(ans)
    \/ \E ans \in GetPostAnswers(post_id) : GetReturn(ans)
    \/ Close
    \/ Exit
    \/ RequestCancel

Spec == Init /\ [][Next]_vars

\* every status fetch returns and every time.sleep(poll_interval) ends
SpecLive ==
    /\ Spec
    /\ WF_vars(\E ans \in StatusAnswers, d \in FetchTimes : GetContainerStatusReturn(ans, d))
    /\ WF_vars(Sleep)

----------------------------------------------------------------------------
(* Type invariant *)

TypeOK ==
    /\ pc \in {"idle", "create_inflight", "status_inflight", "sleeping",
               "publish_inflight", "get_inflight", "done"}
    /\ op \in {NoneVal, "create_and_publish", "create_container",
               "_wait_for_container", "publish"}
    /\ now \in Nat
    /\ Len(answers) \in {Len(calls), Len(calls) - 1}
    /\ result.kind \in {"none", "return", "raise"}
    /\ http_client \in {HttpxClient, NoneVal}
    /\ last_close.outcome.kind \in {"none", "return", "raise"}
    /\ cancel_requested \in BOOLEAN

----------------------------------------------------------------------------
(* Views of the call log used by the properties *)

\* positions of the answered status fetches in the call log
StatusIdx == {i \in 1..Len(answers) : calls[i].call = "get_container_status"}

\* the answers to the status fetches, in the order they were served
Served ==
    [k \in 1..Cardinality(StatusIdx) |->
        answers[CHOOSE i \in StatusIdx : Cardinality({j \in StatusIdx : j <= i}) = k]]

\* number of calls of the given name issued so far
Issued(name) == Cardinality({i \in 1..Len(calls) : calls[i].call = name})

StatusFetches == Issued("get_container_status")

Observed(ans, status) == ans.kind = "ok" /\ ans.status = status

\* a call has been issued and its answer has not arrived
InFlight == Len(calls) > Len(answers)

TimedOut(outcome) == outcome.kind = "raise" /\ outcome.exc.text = "Container not ready"

----------------------------------------------------------------------------
(* Properties *)

\* C1: when the statuses served are IN_PROGRESS, ..., IN_PROGRESS, FINISHED, the
\* wait has returned the FINISHED snapshot after exactly as many status fetches
\* as statuses served (and create_and_publish has gone on to publish); while
\* only IN_PROGRESS was served and the elapsed time is below max_wait_time the
\* wait goes on polling.
C1_TerminalConvergence ==
    LET n == Len(Served)
    IN /\ ( /\ n >= 1
            /\ \A i \in 1..(n - 1) : Observed(Served[i], "IN_PROGRESS")
            /\ Observed(Served[n], "FINISHED") )
          => /\ StatusFetches = n
             /\ wait_outcome = Returned(MediaContainerStatus(container, "FINISHED",
                                                             Served[n].error_message))
             /\ op = "_wait_for_container" => (pc = "done" /\ result = wait_outcome)
             /\ op = "create_and_publish" => Issued("publish") = 1
       /\ ( /\ n >= 1
            /\ \A i \in 1..n : Observed(Served[i], "IN_PROGRESS")
            /\ ~InFlight
            /\ now - start_time < args.max_wait_time )
          => (pc = "sleeping" /\ wait_outcome = NoResult /\ result = NoResult)

\* C1 witness: [IN_PROGRESS, IN_PROGRESS, FINISHED] served, the wait returned
C1_Witness ==
    /\ op = "_wait_for_container"
    /\ Len(Served) = 3
    /\ Observed(Served[1], "IN_PROGRESS")
    /\ Observed(Served[2], "IN_PROGRESS")
    /\ Observed(Served[3], "FINISHED")
    /\ result.kind = "return"
    /\ StatusFetches = 3

\* C2: with 0 < max_wait_time < poll_interval and a container that stays
\* IN_PROGRESS the wait issues exactly one status fetch, then fails with timeout.
C2_ExactlyOneFetch ==
    ( /\ op \in {"_wait_for_container", "create_and_publish"}
      /\ args.max_wait_time > 0
      /\ args.max_wait_time < args.poll_interval
      /\ \A i \in 1..Len(Served) : Observed(Served[i], "IN_PROGRESS") )
    => /\ StatusFetches <= 1
       /\ (Len(Served) = 1 /\ ~InFlight) => TimedOut(wait_outcome)

\* C3: a status fetch that observes ERROR ends the wait with the processing-failed
\* error carrying the snapshot's error_message, one that observes EXPIRED ends it
\* with the expired error, and no further status fetch is issued.
C3_ErrorTerminality ==
    LET n == Len(Served)
    IN /\ (n >= 1 /\ Observed(Served[n], "ERROR"))
          => /\ pc = "done"
             /\ wait_outcome = Raised(ContainerError("Container processing failed",
                                         Served[n].error_message, NoTime, NoneVal))
             /\ result = wait_outcome
             /\ StatusFetches = n
       /\ (n >= 1 /\ Observed(Served[n], "EXPIRED"))
          => /\ pc = "done"
             /\ wait_outcome = Raised(ContainerError("Container expired before publishing",
                                         NoneVal, NoTime, NoneVal))
             /\ result = wait_outcome
             /\ StatusFetches = n

\* C3 witness: [IN_PROGRESS, ERROR] served with an error message, two fetches
C3_Witness ==
    /\ Len(Served) = 2
    /\ Observed(Served[1], "IN_PROGRESS")
    /\ Observed(Served[2], "ERROR")
    /\ Served[2].error_message = "Invalid video format"
    /\ result.kind = "raise"
    /\ result.exc.error_message = "Invalid video format"
    /\ StatusFetches = 2

\* C4: _wait_for_container returns only a snapshot whose status is FINISHED, which
\* is the status of the last fetch; no other fetch result ends it with a return.
C4_ReturnsOnlyFinished ==
    wait_outcome.kind = "return"
    => /\ wait_outcome.value.status = "FINISHED"
       /\ Len(Served) >= 1
       /\ Observed(Served[Len(Served)], "FINISHED")
       /\ \A i \in 1..(Len(Served) - 1) :
             ~Observed(Served[i], "FINISHED") /\ ~Observed(Served[i], "ERROR")
             /\ ~Observed(Served[i], "EXPIRED")

\* C4 witness: the wait returned after a PUBLISHED and then a FINISHED status
C4_Witness ==
    /\ op = "_wait_for_container"
    /\ result.kind = "return"
    /\ Len(Served) = 2
    /\ Observed(Served[1], "PUBLISHED")

\* a status the loop examines without leaving: neither FINISHED, ERROR nor EXPIRED
NonTerminal(ans) == ans.kind = "ok" /\ ans.status \in {"IN_PROGRESS", "PUBLISHED"}

\* C5 as stated: a non-terminal status observed with elapsed >= max_wait_time ends
\* the wait with a timeout error that carries the elapsed time and the last
\* status seen; no timeout is raised while elapsed < max_wait_time.
C5_TimeoutCarriesElapsed ==
    LET n == Len(Served)
    IN /\ (n >= 1 /\ ~InFlight /\ NonTerminal(Served[n])
           /\ now - start_time >= args.max_wait_time)
          => TimedOut(wait_outcome)
       /\ TimedOut(wait_outcome)
          => /\ now - start_time >= args.max_wait_time
             /\ wait_outcome.exc.seconds = now - start_time
             /\ wait_outcome.exc.status = Served[n].status

\* C5 amended: a snapshot whose status is neither FINISHED, ERROR nor EXPIRED,
\* observed with elapsed >= max_wait_time, ends the wait with a ContainerError
\* that carries the configured max_wait_time (not the measured elapsed time) and
\* the last status seen; no timeout is raised while elapsed < max_wait_time.
C5_TimeoutCarriesMaxWait ==
    LET n == Len(Served)
    IN /\ (n >= 1 /\ ~InFlight /\ NonTerminal(Served[n])
           /\ now - start_time >= args.max_wait_time)
          => (TimedOut(wait_outcome) /\ result = wait_outcome /\ pc = "done")
       /\ TimedOut(wait_outcome)
          => /\ now - start_time >= args.max_wait_time
             /\ NonTerminal(Served[n])
             /\ wait_outcome.exc.type = "ContainerError"
             /\ wait_outcome.exc.seconds = args.max_wait_time
             /\ wait_outcome.exc.status = Served[n].status

\* C5 witness: the wait timed out with more time elapsed than max_wait_time
C5_Witness ==
    /\ TimedOut(wait_outcome)
    /\ now - start_time > args.max_wait_time
    /\ args.max_wait_time > 0
    /\ Len(Served) >= 2

\* C6: a status string outside the enumeration is handled as IN_PROGRESS is: the
\* wait sleeps and polls again, or times out; it does not end with a decoding
\* failure and does not return.
C6_UnknownStatusNonTerminal ==
    LET n == Len(Served)
    IN (n >= 1 /\ ~InFlight /\ Served[n].kind = "ok"
        /\ Served[n].status \notin ContainerStatus)
       => \/ pc = "sleeping" /\ wait_outcome = NoResult
          \/ TimedOut(wait_outcome)

\* C7: when _wait_for_container fails inside create_and_publish, create_and_publish
\* fails with the same error and no publish call is issued.
C7_WaitFailureAbortsPublish ==
    (op = "create_and_publish" /\ wait_outcome.kind = "raise")
    => /\ pc = "done"
       /\ result = wait_outcome
       /\ Issued("publish") = 0
       /\ Issued("get") = 0

\* C7 witness: the status sequence [EXPIRED] inside create_and_publish
C7_Witness ==
    /\ op = "create_and_publish"
    /\ Len(Served) = 1
    /\ Observed(Served[1], "EXPIRED")
    /\ result.kind = "raise"
    /\ result.exc.text = "Container expired before publishing"

Rank(call) ==
    CASE call.call = "create_container" -> 1
      [] call.call = "get_container_status" -> 2
      [] call.call = "publish" -> 3
      [] OTHER -> 4

\* C8: in create_and_publish the remote calls are issued in the order create,
\* status fetches, publish, post-detail fetch, one at a time, each about the id
\* the previous step returned; when waiting for a video the publish call is
\* issued only after a status fetch of that container observed FINISHED.
C8_StrictSequence ==
    op = "create_and_publish"
    => /\ Len(calls) - Len(answers) \in {0, 1}
       /\ \A i, j \in 1..Len(calls) : i < j => Rank(calls[i]) <= Rank(calls[j])
       /\ Issued("create_container") <= 1 /\ Issued("publish") <= 1 /\ Issued("get") <= 1
       /\ Len(calls) >= 1 => calls[1].call = "create_container"
       /\ \A i \in 2..Len(calls) :
             /\ answers[i - 1].kind = "ok"
             /\ calls[i].call \in {"get_container_status", "publish"}
                => calls[i].target = answers[1].id
             /\ calls[i].call = "get" => calls[i].target = answers[i - 1].id
             /\ (calls[i].call = "publish"
                 /\ args.wait_for_ready /\ Truthy(args.video_url))
                => (calls[i - 1].call = "get_container_status"
                    /\ calls[i - 1].target = calls[i].target
                    /\ Observed(answers[i - 1], "FINISHED"))

\* C8 witness: create, two status fetches, publish and post-detail fetch were issued
C8_Witness ==
    /\ op = "create_and_publish"
    /\ Len(calls) = 5
    /\ StatusFetches = 2
    /\ calls[5].call = "get"
    /\ pc = "done"

\* C9: create and publish are issued at most once per operation, and a call to
\* create, status or publish that fails ends the operation with that call's
\* error and with no later remote call.
C9_NoRetry ==
    /\ Issued("create_container") <= 1
    /\ Issued("publish") <= 1
    /\ \A i \in 1..Len(answers) :
          (calls[i].call \in {"create_container", "get_container_status", "publish"}
           /\ answers[i] \in ErrorAnswers)
          => /\ Len(calls) = i
             /\ pc = "done"
             /\ result = Raised(AnswerError(answers[i]))

\* C9 witness: the publish call of create_and_publish was answered 500 after a wait
C9_Witness ==
    /\ op = "create_and_publish"
    /\ StatusFetches >= 1
    /\ Len(answers) = Len(calls)
    /\ calls[Len(calls)].call = "publish"
    /\ answers[Len(calls)].kind = "http_error"
    /\ answers[Len(calls)].status_code = 500
    /\ result.kind = "raise"

\* C10: when the publish call succeeded and the post-detail fetch failed, publish
\* and create_and_publish return the minimal Post with the id the publish call
\* returned and do not raise.
C10_PublishFallback ==
    \A i \in 2..Len(answers) :
        (calls[i].call = "get" /\ answers[i] \in ErrorAnswers)
        => /\ calls[i - 1].call = "publish"
           /\ answers[i - 1].kind = "ok"
           /\ pc = "done"
           /\ result = Returned(MinimalPost(answers[i - 1].id))

\* C10 witness: create_and_publish returned although the detail fetch got a 500
C10_Witness ==
    /\ op = "create_and_publish"
    /\ Len(calls) >= 2
    /\ Len(answers) = Len(calls)
    /\ answers[Len(calls) - 1].id = "p2"
    /\ calls[Len(calls)].call = "get"
    /\ answers[Len(calls)].kind = "http_error"
    /\ answers[Len(calls)].status_code = 500
    /\ result.kind = "return"
    /\ result.value.id = "p2"

C12_ValidationShortCircuit ==
    op = "create_and_publish"
    => /\ ( \/ args.text > MAX_TEXT_LENGTH
            \/ ~(args.text > 0 \/ Truthy(args.image_url) \/ Truthy(args.video_url))
            \/ (args.reply_control # NoneVal
                /\ args.reply_control \notin ReplyControlMembers) )
          => (pc = "done" /\ result.kind = "raise"
              /\ result.exc.type = "ValidationError" /\ Len(calls) = 0)
       /\ (args.text = MAX_TEXT_LENGTH /\ args.reply_control \in ReplyControlMembers)
          => (Len(calls) >= 1 /\ result.exc.type # "ValidationError")

\* C13: create_and_publish issues status fetches only when wait_for_ready is true
\* and a video URL was given; otherwise the call after container creation is the
\* publish call and no status fetch is issued.
C13_WaitOnlyForVideo ==
    op = "create_and_publish"
    => /\ StatusFetches > 0 => (args.wait_for_ready /\ Truthy(args.video_url))
       /\ ~(args.wait_for_ready /\ Truthy(args.video_url))
          => /\ StatusFetches = 0
             /\ (Len(answers) >= 1 /\ answers[1].kind = "ok")
                => (Len(calls) >= 2 /\ calls[2].call = "publish")

\* C13 witness: a video published without waiting, the post returned
C13_Witness ==
    /\ op = "create_and_publish"
    /\ Truthy(args.video_url)
    /\ ~args.wait_for_ready
    /\ StatusFetches = 0
    /\ result.kind = "return"

\* C14: the container is created as VIDEO when a video URL is present, else as
\* IMAGE when an image URL is present, else as TEXT; both URLs given make a
\* VIDEO container and no validation failure.
C14_MediaTypePrecedence ==
    op = "create_and_publish"
    => /\ Len(calls) >= 1
          => /\ calls[1].call = "create_container"
             /\ Truthy(args.video_url) => calls[1].media_type = "VIDEO"
             /\ (~Truthy(args.video_url) /\ Truthy(args.image_url))
                => calls[1].media_type = "IMAGE"
             /\ (~Truthy(args.video_url) /\ ~Truthy(args.image_url))
                => calls[1].media_type = "TEXT"
       /\ (args.image_url = "https://h/i.jpg" /\ args.video_url = "https://h/v.mp4")
          => /\ result.exc.type # "ValidationError"
             /\ http_client # NoneVal => Len(calls) >= 1

\* C14 witness: both URLs given, a VIDEO container was created and published
C14_Witness ==
    /\ op = "create_and_publish"
    /\ Truthy(args.image_url)
    /\ Truthy(args.video_url)
    /\ Len(calls) >= 1
    /\ calls[1].media_type = "VIDEO"
    /\ result.kind = "return"

----------------------------------------------------------------------------
(* The rate limiter as a state machine: the callers of one shared limiter *)

\* an entry that does not wait for the lock
MayEnter_unlocked(t) == frame[t] = NoFrame

\* a caller can enter an operation: it is not suspended in wait_if_needed, and
\* `with self._lock` of a RateLimiter finds the lock free (an AsyncRateLimiter
\* has no lock; its operations run between two awaits of the event loop)
MayEnter(t) ==
    /\ frame[t] = NoFrame
    /\ limiter = "RateLimiter" => lock = NoThread

\* can_proceed()
CanProceed(t) ==
    LET pruned == cleanup_old_timestamps(timestamps, clock, window_seconds)
        ok == under_capacity(pruned, max_requests)
    IN /\ MayEnter(t)
       /\ timestamps' = pruned
       /\ approved' = [approved EXCEPT ![t] = ok /\ disciplined]
       /\ last' = Step("can_proceed", clock, ok, 0, FALSE, FALSE, pruned)
       /\ UNCHANGED <<limiter, max_requests, window_seconds, lock, clock, frame,
                      disciplined, log>>
       /\ UNCHANGED <<posts_vars, err_vars>>

\* record_request()
RecordRequest(t) ==
    LET appended == record_request(timestamps, clock)
    IN /\ MayEnter(t)
       /\ Len(log) < MaxRecords
       /\ timestamps' = appended
       /\ log' = Append(log, [time |-> clock, thread |-> t])
       /\ disciplined' = (disciplined /\ approved[t])
       /\ approved' = [u \in Threads |-> approved[u] /\ approved[t] /\ u # t]
       /\ frame' = [u \in Threads |->
                       IF frame[u] = NoFrame
                       THEN NoFrame
                       ELSE [frame[u] EXCEPT !.disturbed = TRUE]]
       /\ last' = Step("record_request", clock, FALSE, 0, FALSE, FALSE, appended)
       /\ UNCHANGED <<limiter, max_requests, window_seconds, lock, clock>>
       /\ UNCHANGED <<posts_vars, err_vars>>

\* wait_if_needed() up to its return or to its sleep; a RateLimiter sleeps with
\* the lock held, an AsyncRateLimiter awaits asyncio.sleep and lets the others run
WaitIfNeeded(t) ==
    LET pruned == cleanup_old_timestamps(timestamps, clock, window_seconds)
    IN /\ MayEnter(t)
       /\ timestamps' = pruned
       /\ IF under_capacity(pruned, max_requests)
             \/ wait_time(pruned, clock, window_seconds) <= 0
          THEN /\ last' = Step("wait_if_needed", clock, FALSE, 0, FALSE, FALSE, pruned)
               /\ UNCHANGED <<lock, frame>>
          ELSE /\ frame' = [frame EXCEPT ![t] =
                               Frame(clock, wait_time(pruned, clock, window_seconds),
                                     pruned, FALSE)]
               /\ lock' = IF limiter = "RateLimiter" THEN t ELSE lock
               /\ last' = Step("sleep", clock, FALSE,
                               wait_time(pruned, clock, window_seconds),
                               FALSE, FALSE, pruned)
       /\ UNCHANGED <<limiter, max_requests, window_seconds, clock, approved,
                      disciplined, log>>
       /\ UNCHANGED <<posts_vars, err_vars>>

\* the sleep of wait_if_needed ends, not before wait_time has passed, and
\* wait_if_needed returns wait_time
Wake(t) ==
    /\ frame[t] # NoFrame
    /\ clock >= frame[t].now + frame[t].wait_time
    /\ frame' = [frame EXCEPT ![t] = NoFrame]
    /\ lock' = IF limiter = "RateLimiter" THEN NoThread ELSE lock
    /\ last' = Step("wait_if_needed", frame[t].now, FALSE, frame[t].wait_time,
                    TRUE, frame[t].disturbed, frame[t].after)
    /\ UNCHANGED <<limiter, max_requests, window_seconds, timestamps, clock, approved,
                   disciplined, log>>
    /\ UNCHANGED <<posts_vars, err_vars>>

\* the property remaining
Remaining(t) ==
    LET pruned == cleanup_old_timestamps(timestamps, clock, window_seconds)
    IN /\ MayEnter(t)
       /\ timestamps' = pruned
       /\ last' = Step("remaining", clock, FALSE, remaining(pruned, max_requests),
                       FALSE, FALSE, pruned)
       /\ UNCHANGED <<limiter, max_requests, window_seconds, lock, clock, frame,
                      approved, disciplined, log>>
       /\ UNCHANGED <<posts_vars, err_vars>>

\* the property usage, which only RateLimiter has
Usage(t) ==
    LET pruned == cleanup_old_timestamps(timestamps, clock, window_seconds)
    IN /\ MayEnter(t)
       /\ limiter = "RateLimiter"
       /\ timestamps' = pruned
       /\ last' = Step("usage", clock, FALSE, usage(pruned), FALSE, FALSE, pruned)
       /\ UNCHANGED <<limiter, max_requests, window_seconds, lock, clock, frame,
                      approved, disciplined, log>>
       /\ UNCHANGED <<posts_vars, err_vars>>

\* reset()
Reset(t) ==
    /\ MayEnter(t)
    /\ timestamps' = reset(timestamps)
    /\ log' = <<>>
    /\ last' = Step("reset", clock, FALSE, 0, FALSE, FALSE, reset(timestamps))
    /\ UNCHANGED <<limiter, max_requests, window_seconds, lock, clock, frame,
                   approved, disciplined>>
    /\ UNCHANGED <<posts_vars, err_vars>>

\* the wall clock advances
Tick ==
    /\ clock < MaxClock
    /\ clock' = clock + 1
    /\ last' = Step("tick", clock + 1, FALSE, 0, FALSE, FALSE, timestamps)
    /\ UNCHANGED <<limiter, max_requests, window_seconds, timestamps, lock, frame,
                   approved, disciplined, log>>
    /\ UNCHANGED <<posts_vars, err_vars>>

RateInit ==
    /\ PostsConstructed
    /\ NoResponse
    /\ \E k \in Kinds, capacity \in Capacities, window \in Windows :
          RateConstructed(k, capacity, window)

RateNext ==
    \/ \E t \in Threads : CanProceed(t)
    \/ \E t \in Threads : RecordRequest(t)
    \/ \E t \in Threads : WaitIfNeeded(t)
    \/ \E t \in Threads : Wake(t)
    \/ \E t \in Threads : Remaining(t)
    \/ \E t \in Threads : Usage(t)
    \/ \E t \in Threads : Reset(t)
    \/ Tick

SpecRate == RateInit /\ [][RateNext]_vars

\* type invariant of the rate limiter
RateTypeOK ==
    /\ limiter \in Kinds
    /\ max_requests \in Capacities
    /\ window_seconds \in Windows
    /\ clock \in 0..MaxClock
    /\ Len(timestamps) <= MaxRecords
    /\ \A i \in 1..Len(timestamps) : timestamps[i] \in 0..clock
    /\ lock \in Threads \cup {NoThread}
    /\ limiter = "AsyncRateLimiter" => lock = NoThread
    /\ \A t \in Threads : lock = t => frame[t] # NoFrame

----------------------------------------------------------------------------
(* Properties of the rate limiter *)

\* the timestamps of ts that are not older than t - window_seconds
Fresh(ts, t) == SelectSeq(ts, LAMBDA x : x >= t - window_seconds)

\* the number of recorded requests that lie within the window now
Retained == Len(Fresh(timestamps, clock))

\* the steps in which wait_if_needed returns
WaitReturned == last.op = "wait_if_needed"

\* C15: for concurrent callers sharing one limiter the capacity check and the
\* recording do not race: when every caller records a request only after its
\* can_proceed returned true, the number of requests retained within the window
\* never exceeds max_requests.
C15_CheckThenRecordWithinCapacity ==
    disciplined => Retained <= max_requests

\* C16: record_request calls of concurrent callers on one shared limiter, all
\* within one window, leave usage equal to their number: none is lost or
\* counted twice.
C16_NoLostRecord ==
    (/\ last.op = "usage"
     /\ \A i \in 1..Len(log) : log[i].time >= last.now - window_seconds)
    => last.ret = Len(log)

\* C16 witness: every caller recorded exactly once and usage returned their number
C16_Witness ==
    /\ last.op = "usage"
    /\ last.ret = NumThreads
    /\ Len(log) = NumThreads
    /\ \A t \in Threads : Cardinality({i \in 1..Len(log) : log[i].thread = t}) = 1

\* C17: when wait_if_needed returns and no other caller recorded a request in
\* the meantime, can_proceed() evaluated at the moment of return is true.
C17_CanProceedAfterWait ==
    (WaitReturned /\ ~last.disturbed)
    => under_capacity(cleanup_old_timestamps(timestamps, clock, window_seconds),
                      max_requests)

\* C18: wait_if_needed returns 0 without suspending when fewer than max_requests
\* timestamps are retained after pruning; at capacity it asks to sleep for
\* exactly oldest + window_seconds - now, sleeps at least that long and returns
\* that amount.
C18_WaitAmount ==
    /\ (WaitReturned /\ ~last.slept)
       => /\ last.ret = 0
          /\ \/ Len(last.after) < max_requests
             \/ last.after[1] + window_seconds - last.now = 0
    /\ last.op = "sleep"
       => /\ Len(last.after) >= max_requests
          /\ last.ret = last.after[1] + window_seconds - last.now
          /\ last.ret > 0
    /\ (WaitReturned /\ last.slept)
       => /\ Len(last.after) >= max_requests
          /\ last.ret = last.after[1] + window_seconds - last.now
          /\ clock - last.now >= last.ret

\* C18 witness: at capacity with two timestamps retained, wait_if_needed slept
\* and returned the time to the expiry of the older one
C18_Witness ==
    /\ WaitReturned
    /\ last.slept
    /\ Len(last.after) = 2
    /\ last.after[1] < last.after[2]
    /\ last.ret > 0

\* C19 as stated: every entry point, record_request included, leaves no
\* timestamp older than now - window_seconds behind.
C19_EveryEntryPointPrunes ==
    last.op \in {"can_proceed", "record_request", "wait_if_needed", "sleep",
                 "remaining", "usage"}
    => \A i \in 1..Len(last.after) : last.after[i] >= last.now - window_seconds

\* C19: can_proceed, wait_if_needed, remaining and usage remove the timestamps
\* older than now - window_seconds as part of the call; record_request only
\* appends the time it reads and reset removes everything; the deque changes
\* nowhere else (not when time passes, not when a sleep ends).
C19_ReadsPrune ==
    [][ /\ (\/ last'.op \in {"can_proceed", "sleep", "remaining", "usage"}
            \/ (last'.op = "wait_if_needed" /\ ~last'.slept))
           => timestamps' = Fresh(timestamps, clock)
        /\ last'.op = "record_request" => timestamps' = Append(timestamps, clock)
        /\ last'.op = "reset" => timestamps' = <<>>
        /\ (last'.op = "tick" \/ (last'.op = "wait_if_needed" /\ last'.slept))
           => timestamps' = timestamps ]_vars

\* C19 witness: remaining was read after a recorded request had left the window
C19_Witness ==
    /\ last.op = "remaining"
    /\ Len(log) > Len(last.after)
    /\ last.ret = max_requests - Len(last.after)

\* C20: on return of can_proceed, remaining or usage every retained timestamp t
\* satisfies now - window_seconds <= t <= now.
C20_RetainedWithinWindow ==
    last.op \in {"can_proceed", "remaining", "usage"}
    => \A i \in 1..Len(timestamps) :
          /\ clock - window_seconds <= timestamps[i]
          /\ timestamps[i] <= clock

\* C20 witness: can_proceed returned with one request pruned and one retained
C20_Witness ==
    /\ last.op = "can_proceed"
    /\ Len(log) = 2
    /\ Len(timestamps) = 1
    /\ timestamps[1] = log[2].time
    /\ log[1].time < clock - window_seconds

\* the recorded requests (since construction or reset) not older than the
\* window at time t
InWindow(t) == {i \in 1..Len(log) : log[i].time >= t - window_seconds}

\* C21: can_proceed() returns true if and only if the number of requests
\* recorded within the window is strictly less than max_requests: true on a
\* fresh tracker, false once max_requests requests were recorded within the window.
C21_CanProceedIffUnderCapacity ==
    last.op = "can_proceed"
    => /\ last.ok <=> (Cardinality(InWindow(last.now)) < max_requests)
       /\ Len(log) = 0 => last.ok
       /\ Cardinality(InWindow(last.now)) >= max_requests => ~last.ok

\* C21 witness: can_proceed returned false with exactly max_requests requests
\* recorded within the window
C21_Witness ==
    /\ last.op = "can_proceed"
    /\ ~last.ok
    /\ max_requests = 2
    /\ Cardinality(InWindow(last.now)) = 2

\* C22: with max_requests = 2, right after two record_request calls
\* can_proceed() is false; once more than window_seconds have passed since the
\* last record, with no further record, can_proceed() is true and usage is 0.
C22_AvailableAgainByTime ==
    /\ (/\ last.op = "can_proceed"
        /\ max_requests = 2
        /\ Len(log) = 2
        /\ last.now = log[2].time
        /\ last.now - log[1].time <= window_seconds)
       => ~last.ok
    /\ (Len(log) >= 1 /\ last.now - log[Len(log)].time > window_seconds)
       => /\ last.op = "can_proceed" => last.ok
          /\ last.op = "usage" => last.ret = 0

\* C22 witness: two requests were recorded on a tracker of capacity 2, more
\* than a window passed, and can_proceed returned true
C22_Witness ==
    /\ last.op = "can_proceed"
    /\ last.ok
    /\ max_requests = 2
    /\ Len(log) = 2
    /\ last.now - log[2].time > window_seconds

\* C23: reset() leaves no timestamp retained and changes neither max_requests
\* nor window_seconds; from a reset to the next record_request usage is 0,
\* remaining is max_requests and can_proceed() is true.
C23_ResetClears ==
    [][ /\ last'.op = "reset"
           => /\ timestamps' = <<>>
              /\ max_requests' = max_requests
              /\ window_seconds' = window_seconds
        /\ Len(log') = 0
           => /\ last'.op = "usage" => last'.ret = 0
              /\ last'.op = "remaining" => last'.ret = max_requests'
              /\ last'.op = "can_proceed" => last'.ok ]_vars

\* C23 witness: a reset right after a request was recorded
C23_Witness ==
    /\ last.op = "reset"
    /\ ~disciplined
    /\ clock = 0
    /\ timestamps = <<>>

\* C30: a RateLimiter keeps its lock while wait_if_needed sleeps: no operation
\* of another thread completes in the meantime, and the retained timestamps
\* are unchanged between its capacity check and its return.
C30_LockHeldWhileWaiting ==
    limiter = "RateLimiter"
    => /\ \A t \in Threads :
             frame[t] # NoFrame
             => /\ lock = t
                /\ last.op \in {"sleep", "tick"}
                /\ timestamps = frame[t].after
                /\ ~frame[t].disturbed
       /\ (WaitReturned /\ last.slept)
          => /\ timestamps = last.after
             /\ ~last.disturbed
             /\ lock = NoThread

\* C30 witness: a thread of a RateLimiter returned from a sleep that lasted
\* longer than it asked for
C30_Witness ==
    /\ limiter = "RateLimiter"
    /\ WaitReturned
    /\ last.slept
    /\ clock > last.now + last.ret

\* _wait_for_container is running or has ended
Waiting == start_time # NoTime

\* ceil(a / b) for b > 0
CeilDiv(a, b) == (a + b - 1) \div b

\* C28: in every iteration the fetched status is examined before the deadline:
\* FINISHED, ERROR or EXPIRED observed on the last fetch decides the outcome
\* whatever the elapsed time, and the timeout is raised only after a fetch that
\* observed a non-terminal status.
C28_StatusBeforeDeadline ==
    LET n == Len(Served)
    IN (n >= 1 /\ wait_outcome # NoResult)
       => /\ Observed(Served[n], "FINISHED") => wait_outcome.kind = "return"
          /\ Observed(Served[n], "ERROR")
             => (wait_outcome.kind = "raise"
                 /\ wait_outcome.exc.text = "Container processing failed")
          /\ Observed(Served[n], "EXPIRED")
             => (wait_outcome.kind = "raise"
                 /\ wait_outcome.exc.text = "Container expired before publishing")
          /\ TimedOut(wait_outcome)
             => (Served[n].kind = "ok" /\ Served[n].status \in {"IN_PROGRESS", "PUBLISHED"})

\* C28 witness: EXPIRED was observed after the deadline had passed, and the
\* wait failed as expired
C28_Witness ==
    /\ op = "_wait_for_container"
    /\ Len(Served) >= 2
    /\ Observed(Served[Len(Served)], "EXPIRED")
    /\ now - start_time >= args.max_wait_time
    /\ args.max_wait_time > 0
    /\ result.kind = "raise"
    /\ result.exc.text = "Container expired before publishing"

\* C29: every _wait_for_container whose status fetches all return ends; it makes
\* at least 1 and at most ceil(max_wait_time / poll_interval) + 1 status
\* fetches, with one suspension of poll_interval between consecutive fetches.
C29_WaitTerminates ==
    /\ [](Waiting
          => /\ StatusFetches >= 1
             /\ StatusFetches <= CeilDiv(args.max_wait_time, args.poll_interval) + 1
             /\ now - start_time >= (StatusFetches - 1) * args.poll_interval
             /\ now - start_time <= (StatusFetches - 1) * args.poll_interval
                                    + Cardinality(StatusIdx) * MaxFetchTime)
    /\ (Waiting /\ wait_outcome = NoResult) ~> (wait_outcome # NoResult)

\* C29 witness: the wait timed out after ceil(2 / 1) + 1 = 3 status fetches
C29_Witness ==
    /\ op = "_wait_for_container"
    /\ args.max_wait_time = 2
    /\ args.poll_interval = 1
    /\ StatusFetches = 3
    /\ TimedOut(result)

\* C27: create_container for a CAROUSEL whose list of children has a length
\* outside [2, 20], 0 and 1 included, fails with ValidationError and makes no
\* remote call.
C27_CarouselItemCount ==
    (/\ op = "create_container"
     /\ args.children # NoChildren
     /\ (args.children < 2 \/ args.children > 20))
    => /\ pc = "done"
       /\ result.kind = "raise"
       /\ result.exc.type = "ValidationError"
       /\ Len(calls) = 0

----------------------------------------------------------------------------
(* raise_for_error applied to a non-200 response *)

ErrInit ==
    /\ PostsConstructed
    /\ RateConstructed("RateLimiter", 1, 1)
    /\ response \in {Response(d, c) : d \in ResponseBodies, c \in StatusCodes}
    /\ raised = [kind |-> "none", exc |-> NoExc]

\* raise_for_error(data, response.status_code)
RaiseForError ==
    /\ raised.kind = "none"
    /\ raised' = raise_for_error(response.data, response.status_code)
    /\ UNCHANGED <<response, posts_vars, rate_vars>>

ErrNext == RaiseForError

SpecErr == ErrInit /\ [][ErrNext]_vars

\* C26: raise_for_error never returns normally; it raises AuthenticationError
\* if the status is 401 or the error code is 190 or 102, otherwise
\* AuthorizationError if the status is 403 or the code is 10, 200 or 294,
\* otherwise RateLimitError if the status is 429 or the code is 4, 17, 32 or
\* 613, otherwise NotFoundError if the status is 404, otherwise
\* ThreadsAPIError; the error carries the status code and the body's error
\* code and message.
C26_ErrorClassification ==
    raised.kind # "none"
    => LET status == response.status_code
           code == IF response.data.has_error THEN response.data.code ELSE NoCode
           authentication == status = 401 \/ code \in {190, 102}
           authorization == status = 403 \/ code \in {10, 200, 294}
           rate_limit == status = 429 \/ code \in {4, 17, 32, 613}
           not_found == status = 404
       IN /\ raised.kind = "raise"
          /\ raised.exc.type = "AuthenticationError" <=> authentication
          /\ raised.exc.type = "AuthorizationError" <=> (~authentication /\ authorization)
          /\ raised.exc.type = "RateLimitError"
             <=> (~authentication /\ ~authorization /\ rate_limit)
          /\ raised.exc.type = "NotFoundError"
             <=> (~authentication /\ ~authorization /\ ~rate_limit /\ not_found)
          /\ raised.exc.type = "ThreadsAPIError"
             <=> (~authentication /\ ~authorization /\ ~rate_limit /\ ~not_found)
          /\ raised.exc.status_code = status
          /\ raised.exc.error_code = code
          /\ (response.data.has_error /\ response.data.message # NoneVal)
             => raised.exc.text = response.data.message

\* C26 witness: status 403 with error code 190 was classified as an
\* authentication error, carrying both and the message
C26_Witness ==
    /\ response.status_code = 403
    /\ response.data.code = 190
    /\ raised.kind = "raise"
    /\ raised.exc.type = "AuthenticationError"
    /\ raised.exc.text = "Invalid token"

\* C25: a client is open from construction until close()/aclose(); once
\* closed it never becomes open again, no remote call is issued through it,
\* an operation started on it ends at once with RuntimeError 'Client has been
\* closed' (unless its arguments fail local validation before the transport is
\* reached), and every close, a second one and one made by leaving a with
\* block included, returns None without raising.
C25_ClosedClientStaysClosed ==
    /\ last_close = NoClose => http_client = HttpxClient
    /\ [][/\ last_close' = NoClose => http_client' = HttpxClient
          /\ http_client # http_client' => last_close'.was_open
          /\ last_close' # NoClose
             => /\ http_client' = NoneVal
                /\ last_close'.outcome = Returned(NoneVal)
          /\ http_client = NoneVal
             => /\ http_client' = NoneVal
                /\ calls' = calls
                /\ pc' # pc
                   => /\ pc' = "done"
                      /\ result'.kind = "raise"
                      /\ result'.exc # RuntimeError("Client has been closed")
                         => /\ op' \in {"create_and_publish", "create_container"}
                            /\ result'.exc.type \in {"ValidationError", "AttributeError"}
         ]_vars

\* C25 witness: the client was closed explicitly, the with block was then
\* left, and create_and_publish on it raised RuntimeError without a call
C25_Witness ==
    /\ http_client = NoneVal
    /\ last_close = Closed("__exit__", FALSE, Returned(NoneVal))
    /\ op = "create_and_publish"
    /\ pc = "done"
    /\ result = Raised(RuntimeError("Client has been closed"))
    /\ calls = <<>>

\* C24: a wait in progress can be cancelled cooperatively: once cancellation
\* has been requested, the top of the next loop iteration issues no further
\* status fetch and ends the wait with an error that is neither the timeout,
\* nor processing-failed, nor expired.
C24_CancelledBetweenIterations ==
    [][(cancel_requested /\ pc = "sleeping" /\ pc' # "sleeping")
       => /\ calls' = calls
          /\ wait_outcome'.kind = "raise"
          /\ ~TimedOut(wait_outcome')
          /\ wait_outcome'.exc.text \notin {"Container processing failed",
                                           "Container expired before publishing"}
      ]_vars

====
